---------------------------- MODULE Spec2Model ----------------------------
(***************************************************************************)
(* Model of tensorflow-2/comet-tensorflow-distributed-multiworker-         *)
(* mirrored-strategy.py: the script's own control flow (module load,        *)
(* main()) run by one or several worker processes.  What the script        *)
(* delegates to TensorFlow and comet_ml is modelled by what the script     *)
(* observes of it: the values a call returns and when it returns.          *)
(*                                                                         *)
(* A Python str is a sequence of one-character strings, None is <<>> and   *)
(* a present value x is <<x>> (an optional).                               *)
(***************************************************************************)
EXTENDS Integers, Sequences, FiniteSets, TLC

(* ------------------------------ bounds --------------------------------- *)
MaxLen == 3
MaxWorkers == 2
MaxRunId == 2
MaxTask == 1
MaxBatches == 2
MaxReplicas == 2

(* ------------------------- program constants --------------------------- *)
EPOCHS == 10
BATCH_SIZE_PER_REPLICA == 64
PROJECT_NAME == "tf-distributed-multiworker-mirrored"

None == <<>>
Some(x) == <<x>>

(* ------------------------------ str.split ------------------------------ *)
RECURSIVE SplitFrom(_, _, _)
SplitFrom(h, k, cur) ==
    IF k > Len(h) THEN <<cur>>
    ELSE IF h[k] = "," THEN <<cur>> \o SplitFrom(h, k + 1, <<>>)
    ELSE SplitFrom(h, k + 1, Append(cur, h[k]))

\* a split that drops empty fields, as str.split() without a separator does
split_skip_empty(h) == SelectSeq(SplitFrom(h, 1, <<>>), LAMBDA f : f # <<>>)

\* args.worker_hosts.split(",")
split(h) == SplitFrom(h, 1, <<>>)

(* ------------------------------ json.dumps ----------------------------- *)
Digit(d) ==
    CASE d = 0 -> "0" [] d = 1 -> "1" [] d = 2 -> "2" [] d = 3 -> "3"
      [] d = 4 -> "4" [] d = 5 -> "5" [] d = 6 -> "6" [] d = 7 -> "7"
      [] d = 8 -> "8" [] d = 9 -> "9"

RECURSIVE NatToStr(_)
NatToStr(n) == IF n < 10 THEN <<Digit(n)>> ELSE Append(NatToStr(n \div 10), Digit(n % 10))

\* an int or None as JSON text
EncInt(t) ==
    IF t = None THEN <<"null">>
    ELSE IF t[1] < 0 THEN <<"-">> \o NatToStr(-t[1])
    ELSE NatToStr(t[1])

RECURSIVE EscapeFrom(_, _)
EscapeFrom(s, k) ==
    IF k > Len(s) THEN <<>>
    ELSE (IF s[k] \in {"\"", "\\"} THEN <<"\\", s[k]>> ELSE <<s[k]>>) \o EscapeFrom(s, k + 1)

\* a str as a JSON string literal
EncStr(s) == <<"\"">> \o EscapeFrom(s, 1) \o <<"\"">>

RECURSIVE EncItems(_, _)
EncItems(l, k) ==
    IF k > Len(l) THEN <<>>
    ELSE (IF k > 1 THEN <<", ">> ELSE <<>>) \o EncStr(l[k]) \o EncItems(l, k + 1)

\* a list of str as a JSON array
EncList(l) == <<"[">> \o EncItems(l, 1) \o <<"]">>

\* json.dumps of a dict of the shape main() builds, with Python's default separators
json_dumps(d) ==
    <<"{">> \o EncStr(<<"cluster">>) \o <<": ">>
        \o <<"{">> \o EncStr(<<"worker">>) \o <<": ">> \o EncList(d.cluster.worker) \o <<"}">>
    \o <<", ">> \o EncStr(<<"task">>) \o <<": ">>
        \o <<"{">> \o EncStr(<<"type">>) \o <<": ">> \o EncStr(d.task.type)
        \o <<", ">> \o EncStr(<<"index">>) \o <<": ">> \o EncInt(d.task.index) \o <<"}">>
    \o <<"}">>


(* ------------------------------- state --------------------------------- *)
VARIABLES
    proc,         \* proc[w]: the state of worker process w (a record, see InitProc)
    dataset_len,  \* number of training images in the bundled dataset
    losses,       \* the values a training step may return
    hits          \* the values a step may add to the accuracy metric's total

vars == <<proc, dataset_len, losses, hits>>

Procs == DOMAIN proc
AllProcs == 0..(MaxWorkers - 1)
Ended == {"done", "failed"}

\* ",".join(l)
RECURSIVE Join(_)
Join(l) ==
    IF Len(l) = 0 THEN <<>>
    ELSE IF Len(l) = 1 THEN l[1]
    ELSE l[1] \o <<",">> \o Join(Tail(l))

HostName(k) == <<"h">> \o NatToStr(k)
HostList(n) == Join([k \in 1..n |-> HostName(k - 1)])

\* all str over the characters cs of length at most n
RECURSIVE StrsUpTo(_, _)
StrsUpTo(cs, n) ==
    IF n = 0 THEN {<<>>}
    ELSE LET shorter == StrsUpTo(cs, n - 1)
         IN  shorter \cup {Append(t, c) : t \in shorter, c \in cs}

\* the state of a process before the interpreter loads the module
InitProc(argv, peers, replicas, after) ==
    [ argv |-> argv,             \* the command line: --run_id, --worker_hosts, --task_index
      peers |-> peers,           \* the processes of this process's cluster
      replicas |-> replicas,     \* what strategy.num_replicas_in_sync will report
      after |-> after,           \* the processes that end before this one is started
      pc |-> "load",
      env |-> [GRPC_FAIL_FAST |-> None, TF_CONFIG |-> None],
      BUFFER_SIZE |-> 0,
      worker_hosts |-> <<>>,
      experiment |-> None,       \* the comet_ml.Experiment, once opened
      log |-> <<>>,              \* the calls the tracking session received, in order
      metric |-> None,           \* the value of the latest log_metric call
      GLOBAL_BATCH_SIZE |-> 0,
      batches |-> 0,             \* batches one pass over dist_dataset yields here
      i |-> -1,
      total_loss |-> 0,
      num_batches |-> 0,
      left |-> 0,                \* batches the current pass has still to yield
      train_accuracy |-> [total |-> 0, count |-> 0],
      stdout |-> <<>>,           \* the epochs of the 'Finished epoch' lines printed
      printed |-> None,          \* the accuracy of the latest line printed
      entered |-> 0,             \* collective training steps entered so far
      trace |-> <<>>,            \* the steps of the flow executed, in order
      failed_at |-> "",          \* where an exception left main()
      epoch_loss |-> 0,          \* history: sum of the losses returned since i was set
      epoch_steps |-> 0,         \* history: step_fn calls returned since i was set
      epoch_hits |-> 0 ]         \* history: accuracy hits added since i was set

RunIds == {None} \cup {Some(r) : r \in 1..MaxRunId}

\* dataset sizes around the boundaries of a global batch of r replicas
Sizes(r) ==
    {1} \cup {k * BATCH_SIZE_PER_REPLICA * r : k \in 1..MaxBatches}
        \cup {k * BATCH_SIZE_PER_REPLICA * r + 1 : k \in 1..(MaxBatches - 1)}

Argvs ==
    [ run_id : {None, Some(MaxRunId)},
      worker_hosts : {None, Some(HostList(MaxWorkers))},
      task_index : {None, Some(0), Some(MaxTask)} ]

\* one process; each flag given or not, the task index 0 or another
Init ==
    /\ \E a \in Argvs, r \in {1, MaxReplicas} :
          /\ proc = [w \in {0} |-> InitProc(a, {0}, r, {})]
          /\ dataset_len \in Sizes(r)
    /\ losses = {1, 2}
    /\ hits = {0, 1}

(* ------------------------- the script's own logic ---------------------- *)
\* a coordinator test that holds for every process given a task index
IsCoordinator_any(argv) == argv.task_index # None

\* task_index == 0
IsCoordinator(argv) == argv.task_index = Some(0)

\* a descriptor that takes the run id for the task index
cluster_dict_run_id(argv, worker_hosts) ==
    [ cluster |-> [worker |-> worker_hosts],
      task |-> [type |-> <<"worker">>, index |-> argv.run_id] ]

cluster_dict(argv, worker_hosts) ==
    [ cluster |-> [worker |-> worker_hosts],
      task |-> [type |-> <<"worker">>, index |-> argv.task_index] ]

CeilDiv(a, b) == (a + b - 1) \div b

\* a dataset that keeps this input pipeline's shard only
dataset_fn_sharded(ctx, st) ==
    CeilDiv((st.BUFFER_SIZE + Cardinality(st.peers) - 1 - ctx) \div Cardinality(st.peers),
            st.GLOBAL_BATCH_SIZE)

\* a dataset batched with drop_remainder=True
dataset_fn_drop_remainder(ctx, st) == st.BUFFER_SIZE \div st.GLOBAL_BATCH_SIZE

\* the number of batches of the dataset dataset_fn(_) builds in process state st:
\* all BUFFER_SIZE examples, batched by GLOBAL_BATCH_SIZE, the remainder kept
dataset_fn(ctx, st) == CeilDiv(st.BUFFER_SIZE, st.GLOBAL_BATCH_SIZE)

\* a loop that stops one epoch short
range_short(i) == i + 1 < EPOCHS - 1

\* whether `for i in range(EPOCHS)` has an index after i
range(i) == i + 1 < EPOCHS

\* a metric entry that carries the number of epochs done
metric_entry_count(i) == [op |-> "log_metric", key |-> "train_loss", epoch |-> i + 1]

\* experiment.log_metric("train_loss", ..., epoch=i)
metric_entry(i) == [op |-> "log_metric", key |-> "train_loss", epoch |-> i]

\* a reset that leaves the metric as it is
reset_states_kept(acc) == acc

\* train_accuracy.reset_states()
reset_states(acc) == [total |-> 0, count |-> 0]

Step(w, name) == Append(proc[w].trace, name)

\* process w exists and stands at label l of the script
AtPc(w, l) == w \in Procs /\ proc[w].pc = l

(* ------------------------------ actions -------------------------------- *)
Globals == UNCHANGED <<dataset_len, losses, hits>>

\* module load: os.environ["GRPC_FAIL_FAST"] = "use_caller", the dataset, BUFFER_SIZE
LoadModule(w) ==
    /\ AtPc(w, "load")
    /\ \A v \in proc[w].after : proc[v].pc \in Ended
    /\ proc' = [proc EXCEPT ![w].env.GRPC_FAIL_FAST = Some("use_caller"),
                            ![w].BUFFER_SIZE = dataset_len,
                            ![w].trace = Step(w, "GRPC_FAIL_FAST"),
                            ![w].pc = "get_args"]
    /\ Globals

\* args = get_args(); run_id = args.run_id; task_index = args.task_index
GetArgs(w) ==
    /\ AtPc(w, "get_args")
    /\ proc' = [proc EXCEPT ![w].trace = Step(w, "get_args"), ![w].pc = "split"]
    /\ Globals

\* worker_hosts = args.worker_hosts.split(","): None has no split
SplitHosts(w) ==
    /\ AtPc(w, "split")
    /\ proc[w].argv.worker_hosts # None
    /\ proc' = [proc EXCEPT ![w].worker_hosts = split(proc[w].argv.worker_hosts[1]),
                            ![w].pc = "tf_config"]
    /\ Globals

\* os.environ["TF_CONFIG"] = json.dumps(cluster_dict); if task_index == 0
WriteTfConfig(w) ==
    /\ AtPc(w, "tf_config")
    /\ proc' = [proc EXCEPT
           ![w].env.TF_CONFIG = Some(json_dumps(cluster_dict(proc[w].argv, proc[w].worker_hosts))),
           ![w].trace = Step(w, "TF_CONFIG"),
           ![w].pc = IF IsCoordinator(proc[w].argv) THEN "experiment" ELSE "strategy"]
    /\ Globals

\* experiment = comet_ml.Experiment(project_name=PROJECT_NAME)
OpenExperiment(w) ==
    /\ AtPc(w, "experiment")
    /\ proc' = [proc EXCEPT ![w].experiment = Some(PROJECT_NAME),
                            ![w].trace = Step(w, "Experiment"),
                            ![w].pc = "log_run_id"]
    /\ Globals

\* experiment.log_other("run_id", run_id)
LogRunId(w) ==
    /\ AtPc(w, "log_run_id")
    /\ proc' = [proc EXCEPT
           ![w].log = Append(@, [op |-> "log_other", key |-> "run_id",
                                 value |-> proc[w].argv.run_id]),
           ![w].trace = Step(w, "log_other"),
           ![w].pc = "log_worker_hosts"]
    /\ Globals

\* experiment.log_other("worker_hosts", args.worker_hosts)
LogWorkerHosts(w) ==
    /\ AtPc(w, "log_worker_hosts")
    /\ proc' = [proc EXCEPT
           ![w].log = Append(@, [op |-> "log_other", key |-> "worker_hosts",
                                 value |-> proc[w].argv.worker_hosts]),
           ![w].trace = Step(w, "log_other"),
           ![w].pc = "strategy"]
    /\ Globals

\* the strategy constructed where TF_CONFIG is still to be written
MakeStrategy_early(w) ==
    /\ AtPc(w, "tf_config")
    /\ proc' = [proc EXCEPT
           ![w].GLOBAL_BATCH_SIZE = BATCH_SIZE_PER_REPLICA * proc[w].replicas,
           ![w].trace = Step(w, "strategy"),
           ![w].pc = "scope"]
    /\ Globals

\* strategy = MultiWorkerMirroredStrategy(); GLOBAL_BATCH_SIZE = ...
MakeStrategy(w) ==
    /\ AtPc(w, "strategy")
    /\ proc' = [proc EXCEPT
           ![w].GLOBAL_BATCH_SIZE = BATCH_SIZE_PER_REPLICA * proc[w].replicas,
           ![w].trace = Step(w, "strategy"),
           ![w].pc = "scope"]
    /\ Globals

\* with strategy.scope(): the model, the optimizer, the loss and the accuracy metric
StrategyScope(w) ==
    /\ AtPc(w, "scope")
    /\ proc' = [proc EXCEPT ![w].trace = Step(w, "scope"), ![w].pc = "dataset"]
    /\ Globals

\* dist_dataset = strategy.distribute_datasets_from_function(dataset_fn)
DistributeDataset(w) ==
    /\ AtPc(w, "dataset")
    /\ proc' = [proc EXCEPT
           ![w].batches = dataset_fn(Cardinality({v \in proc[w].peers : v < w}), proc[w]),
           ![w].trace = Step(w, "dataset"),
           ![w].pc = "epoch"]
    /\ Globals

\* for i in range(EPOCHS): total_loss = 0; num_batches = 0; iter(dist_dataset)
EpochStart(w) ==
    /\ AtPc(w, "epoch")
    /\ range(proc[w].i)
    /\ proc' = [proc EXCEPT
           ![w].i = @ + 1,
           ![w].total_loss = 0,
           ![w].num_batches = 0,
           ![w].left = proc[w].batches,
           ![w].epoch_loss = 0,
           ![w].epoch_steps = 0,
           ![w].epoch_hits = 0,
           ![w].trace = IF proc[w].i = -1 THEN Step(w, "loop") ELSE @,
           ![w].pc = "batch"]
    /\ Globals

\* range(EPOCHS) is exhausted: main() returns
LoopExit(w) ==
    /\ AtPc(w, "epoch")
    /\ ~range(proc[w].i)
    /\ proc' = [proc EXCEPT ![w].pc = "done"]
    /\ Globals

\* for x in dist_dataset yields a batch; step_fn(x) enters its collectives
EnterStep(w) ==
    /\ AtPc(w, "batch")
    /\ proc[w].left > 0
    /\ proc' = [proc EXCEPT ![w].left = @ - 1, ![w].entered = @ + 1, ![w].pc = "in_step"]
    /\ Globals

\* step_fn(x) returns once every process of the cluster has entered the step;
\* total_loss += loss; num_batches += 1
StepReturn(w) ==
    /\ AtPc(w, "in_step")
    /\ \A v \in proc[w].peers : proc[v].entered >= proc[w].entered
    /\ \E loss \in losses, hit \in hits :
         proc' = [proc EXCEPT
           ![w].train_accuracy = [total |-> @.total + hit, count |-> @.count + 1],
           ![w].total_loss = @ + loss,
           ![w].num_batches = @ + 1,
           ![w].epoch_loss = @ + loss,
           ![w].epoch_steps = @ + 1,
           ![w].epoch_hits = @ + hit,
           ![w].pc = "batch"]
    /\ Globals

\* dist_dataset is exhausted; if task_index == 0
EndOfData(w) ==
    /\ AtPc(w, "batch")
    /\ proc[w].left = 0
    /\ proc' = [proc EXCEPT
           ![w].pc = IF IsCoordinator(proc[w].argv) THEN "log_metric" ELSE "print"]
    /\ Globals

\* experiment.log_metric("train_loss", total_loss / num_batches, epoch=i):
\* the quotient is kept as the pair <<total_loss, num_batches>>; 0 has no quotient
LogMetric(w) ==
    /\ AtPc(w, "log_metric")
    /\ proc[w].num_batches # 0
    /\ proc' = [proc EXCEPT
           ![w].log = Append(@, metric_entry(proc[w].i)),
           ![w].metric = Some(<<proc[w].total_loss, proc[w].num_batches>>),
           ![w].pc = "print"]
    /\ Globals

\* print("Finished epoch %d, accuracy is %f." % (i, train_accuracy.result().numpy()))
PrintEpoch(w) ==
    /\ AtPc(w, "print")
    /\ proc' = [proc EXCEPT
           ![w].stdout = Append(@, proc[w].i),
           ![w].printed = Some(<<proc[w].train_accuracy.total, proc[w].train_accuracy.count>>),
           ![w].pc = "reset"]
    /\ Globals

\* train_accuracy.reset_states()
ResetStates(w) ==
    /\ AtPc(w, "reset")
    /\ proc' = [proc EXCEPT ![w].train_accuracy = reset_states(@), ![w].pc = "epoch"]
    /\ Globals

\* an exception that also removes TF_CONFIG from the environment
Raise_cleanup(w) ==
    /\ w \in Procs
    /\ proc[w].pc \notin Ended
    /\ proc' = [proc EXCEPT ![w].failed_at = proc[w].pc, ![w].env.TF_CONFIG = None,
                            ![w].pc = "failed"]
    /\ Globals

\* the statement at pc raises: nothing in the script catches it, the process ends
Raise(w) ==
    /\ w \in Procs
    /\ proc[w].pc \notin Ended
    /\ proc' = [proc EXCEPT ![w].failed_at = proc[w].pc, ![w].pc = "failed"]
    /\ Globals

Next ==
    \E w \in AllProcs :
        \/ LoadModule(w) \/ GetArgs(w) \/ SplitHosts(w) \/ WriteTfConfig(w)
        \/ OpenExperiment(w) \/ LogRunId(w) \/ LogWorkerHosts(w)
        \/ MakeStrategy(w) \/ StrategyScope(w) \/ DistributeDataset(w)
        \/ EpochStart(w) \/ LoopExit(w) \/ EnterStep(w) \/ StepReturn(w) \/ EndOfData(w)
        \/ LogMetric(w) \/ PrintEpoch(w) \/ ResetStates(w)
        \/ Raise(w)

Spec == Init /\ [][Next]_vars

(* ---------------------- a run in which nothing fails ------------------- *)
InitRun == Init /\ proc[0].argv.worker_hosts # None

NextRun ==
    \E w \in AllProcs :
        \/ LoadModule(w) \/ GetArgs(w) \/ SplitHosts(w) \/ WriteTfConfig(w)
        \/ OpenExperiment(w) \/ LogRunId(w) \/ LogWorkerHosts(w)
        \/ MakeStrategy(w) \/ StrategyScope(w) \/ DistributeDataset(w)
        \/ EpochStart(w) \/ LoopExit(w) \/ EnterStep(w) \/ StepReturn(w) \/ EndOfData(w)
        \/ LogMetric(w) \/ PrintEpoch(w) \/ ResetStates(w)

\* a process that can take a step of main() eventually takes one
SpecRun == InitRun /\ [][NextRun]_vars /\ WF_vars(NextRun)

(* ------------- the configuration phase, on any command line ------------ *)
Chars == {"a", "b", ",", "\""}
TaskArgs == {None} \cup {Some(t) : t \in (0..MaxTask) \cup {-1, 10}}

InitConfig ==
    /\ \E a \in [ run_id : {None, Some(MaxRunId)},
                  worker_hosts : {None} \cup {Some(h) : h \in StrsUpTo(Chars, MaxLen)},
                  task_index : TaskArgs ] :
          proc = [w \in {0} |-> InitProc(a, {0}, 1, {})]
    /\ dataset_len = 1
    /\ losses = {1}
    /\ hits = {1}

NextConfig ==
    \E w \in AllProcs :
        \/ LoadModule(w) \/ GetArgs(w) \/ SplitHosts(w) \/ WriteTfConfig(w) \/ Raise(w)

SpecConfig == InitConfig /\ [][NextConfig]_vars

(* ------ a cluster: n processes, one command line but for the index ----- *)
(* Every process reports the same n * g replicas in sync (g per process).  *)
(* The values the steps return are fixed here: what is varied is how the   *)
(* processes interleave.                                                   *)
InitCluster ==
    /\ \E n \in 1..MaxWorkers, g \in {1, MaxReplicas} :
          /\ proc = [w \in 0..(n - 1) |->
                        InitProc([run_id |-> Some(MaxRunId), worker_hosts |-> Some(HostList(n)),
                                  task_index |-> Some(w)],
                                 0..(n - 1), n * g, {})]
          /\ dataset_len \in Sizes(n * g)
    /\ losses = {1}
    /\ hits = {1}

\* every process is scheduled: one that can take a step eventually takes one
SpecCluster == InitCluster /\ [][NextRun]_vars /\ WF_vars(NextRun)

(* ---- two runs, one after the other, that differ in --run_id only ------ *)
(* Both runs meet the same dataset and the same values from their steps.   *)
InitPair ==
    /\ \E a \in Argvs, x \in RunIds, y \in RunIds :
          /\ a.worker_hosts # None
          /\ a.run_id = None
          /\ x # y
          /\ proc = [w \in {0, 1} |->
                        IF w = 0 THEN InitProc([a EXCEPT !.run_id = x], {0}, 1, {})
                        ELSE InitProc([a EXCEPT !.run_id = y], {1}, 1, {0})]
    /\ dataset_len \in Sizes(1)
    /\ losses = {1}
    /\ hits = {1}

SpecPair == InitPair /\ [][NextRun]_vars

(* ======================================================================= *)
(*                               properties                                *)
(* ======================================================================= *)
(* ------------------------------ json.loads ----------------------------- *)
(* What a reader of TF_CONFIG recovers from the text: used to state what   *)
(* the descriptor means, independently of how it was written.              *)
Bad == [ok |-> FALSE, val |-> <<>>, next |-> 0]

At(s, k) == IF k >= 1 /\ k <= Len(s) THEN s[k] ELSE "<eof>"

RECURSIVE ReadChars(_, _, _)
ReadChars(s, k, acc) ==
    IF k > Len(s) THEN Bad
    ELSE IF s[k] = "\"" THEN [ok |-> TRUE, val |-> acc, next |-> k + 1]
    ELSE IF s[k] = "\\" THEN
        (IF k + 1 > Len(s) THEN Bad ELSE ReadChars(s, k + 2, Append(acc, s[k + 1])))
    ELSE ReadChars(s, k + 1, Append(acc, s[k]))

ReadStr(s, k) == IF At(s, k) = "\"" THEN ReadChars(s, k + 1, <<>>) ELSE Bad

RECURSIVE ReadItems(_, _, _)
ReadItems(s, k, acc) ==
    LET r == ReadStr(s, k) IN
    IF ~r.ok THEN Bad
    ELSE IF At(s, r.next) = "]" THEN [ok |-> TRUE, val |-> Append(acc, r.val), next |-> r.next + 1]
    ELSE IF At(s, r.next) = ", " THEN ReadItems(s, r.next + 1, Append(acc, r.val))
    ELSE Bad

ReadList(s, k) ==
    IF At(s, k) # "[" THEN Bad
    ELSE IF At(s, k + 1) = "]" THEN [ok |-> TRUE, val |-> <<>>, next |-> k + 2]
    ELSE ReadItems(s, k + 1, <<>>)

DigitVal(c) ==
    CASE c = "0" -> 0 [] c = "1" -> 1 [] c = "2" -> 2 [] c = "3" -> 3 [] c = "4" -> 4
      [] c = "5" -> 5 [] c = "6" -> 6 [] c = "7" -> 7 [] c = "8" -> 8 [] c = "9" -> 9
      [] OTHER -> -1

RECURSIVE ReadDigits(_, _, _)
ReadDigits(s, k, acc) ==
    IF DigitVal(At(s, k)) < 0 THEN [ok |-> TRUE, val |-> acc, next |-> k]
    ELSE ReadDigits(s, k + 1, 10 * acc + DigitVal(At(s, k)))

ReadInt(s, k) ==
    IF At(s, k) = "null" THEN [ok |-> TRUE, val |-> None, next |-> k + 1]
    ELSE IF At(s, k) = "-" THEN
        (IF DigitVal(At(s, k + 1)) < 0 THEN Bad
         ELSE LET r == ReadDigits(s, k + 1, 0) IN [r EXCEPT !.val = Some(-r.val)])
    ELSE IF DigitVal(At(s, k)) < 0 THEN Bad
    ELSE LET r == ReadDigits(s, k, 0) IN [r EXCEPT !.val = Some(r.val)]

\* position after the key `name` and its ": " when they stand at k, else 0
ReadKey(s, k, name) ==
    LET r == ReadStr(s, k) IN
    IF r.ok /\ r.val = <<name>> /\ At(s, r.next) = ": " THEN r.next + 1 ELSE 0

NoConfig == [ok |-> FALSE, worker |-> <<>>, type |-> <<>>, index |-> None]

json_loads(s) ==
    LET k1 == IF At(s, 1) = "{" THEN ReadKey(s, 2, "cluster") ELSE 0
        k2 == IF k1 > 0 /\ At(s, k1) = "{" THEN ReadKey(s, k1 + 1, "worker") ELSE 0
        w  == IF k2 > 0 THEN ReadList(s, k2) ELSE Bad
        k3 == IF w.ok /\ At(s, w.next) = "}" /\ At(s, w.next + 1) = ", "
              THEN ReadKey(s, w.next + 2, "task") ELSE 0
        k4 == IF k3 > 0 /\ At(s, k3) = "{" THEN ReadKey(s, k3 + 1, "type") ELSE 0
        ty == IF k4 > 0 THEN ReadStr(s, k4) ELSE Bad
        k5 == IF ty.ok /\ At(s, ty.next) = ", " THEN ReadKey(s, ty.next + 1, "index") ELSE 0
        ix == IF k5 > 0 THEN ReadInt(s, k5) ELSE Bad
    IN  IF ix.ok /\ At(s, ix.next) = "}" /\ At(s, ix.next + 1) = "}" /\ ix.next + 1 = Len(s)
        THEN [ok |-> TRUE, worker |-> w.val, type |-> ty.val, index |-> ix.val]
        ELSE NoConfig

IsPrefix(a, b) == Len(a) <= Len(b) /\ SubSeq(b, 1, Len(a)) = a
Range(q) == {q[k] : k \in 1..Len(q)}

\* the label process w stands at, or stood at when an exception ended it
Pos(w) == IF proc[w].pc = "failed" THEN proc[w].failed_at ELSE proc[w].pc

\* the process launched with --task_index 0
Coord(w) == proc[w].argv.task_index = Some(0)

Opened(w) == proc[w].experiment # None
Logged(w, op) == \E k \in 1..Len(proc[w].log) : proc[w].log[k].op = op
AllDone == \A w \in Procs : proc[w].pc = "done"

\* C1: in a cluster of n processes with task indexes 0..n-1, a process whose
\* task index is not 0 never opens a tracking session and never logs anything,
\* and the process with task index 0 opens one and calls log_other and
\* log_metric: once all have run, the processes with a session are exactly {0}.
C1_OnlyCoordinatorLogs ==
    /\ \A w \in Procs :
          ~Coord(w) => ~Opened(w) /\ proc[w].log = <<>> /\ proc[w].metric = None
    /\ \A w \in Procs :
          Coord(w) /\ proc[w].pc = "done" =>
              Opened(w) /\ Logged(w, "log_other") /\ Logged(w, "log_metric")
    /\ AllDone => {w \in Procs : Opened(w) \/ proc[w].log # <<>>} = {0}

C1_Witness == AllDone /\ Cardinality(Procs) >= 2 /\ Opened(0) /\ ~Opened(1)

\* the two metadata calls of the coordinator
Metadata(w) ==
    << [op |-> "log_other", key |-> "run_id", value |-> proc[w].argv.run_id],
       [op |-> "log_other", key |-> "worker_hosts", value |-> proc[w].argv.worker_hosts] >>

TrainLoss(m) == [k \in 1..m |-> [op |-> "log_metric", key |-> "train_loss", epoch |-> k - 1]]

\* the labels of an epoch before and after its log_metric call
BeforeMetric == {"batch", "in_step", "log_metric"}
AfterMetric == {"print", "reset", "epoch", "done"}

\* C2: the session of a coordinator receives "run_id", then "worker_hosts", then
\* one "train_loss" metric per epoch with epochs 0, 1, ... in order: the metric of
\* epoch i is there only once every batch of epoch i has been stepped, the metric
\* of epoch i - 1 is there before any batch of epoch i, and a run that completes
\* has sent both fields and exactly EPOCHS metrics, epochs 0..EPOCHS-1.
C2_SessionReceives ==
    \A w \in Procs :
        Coord(w) =>
            /\ proc[w].i = -1 => IsPrefix(proc[w].log, Metadata(w))
            /\ proc[w].i >= 0 /\ Pos(w) \in BeforeMetric =>
                  proc[w].log = Metadata(w) \o TrainLoss(proc[w].i)
            /\ proc[w].i >= 0 /\ Pos(w) \in AfterMetric =>
                  /\ proc[w].log = Metadata(w) \o TrainLoss(proc[w].i + 1)
                  /\ proc[w].epoch_steps = proc[w].batches
                  /\ proc[w].left = 0
            /\ proc[w].pc = "done" =>
                  /\ proc[w].log = Metadata(w) \o TrainLoss(EPOCHS)
                  /\ Len(proc[w].log) = 2 + EPOCHS

C2_Witness ==
    \E w \in Procs :
        /\ Coord(w) /\ proc[w].pc = "done" /\ proc[w].batches = MaxBatches
        /\ Len(proc[w].log) = 2 + EPOCHS /\ proc[w].log[2 + EPOCHS].epoch = EPOCHS - 1

Commas(h) == Cardinality({k \in 1..Len(h) : h[k] = ","})

\* C3: the text written to TF_CONFIG reads back as {cluster: {worker: W},
\* task: {type: "worker", index: t}} with t the --task_index as given, whatever
\* its value, and W the --worker_hosts string h cut at its commas: no element of
\* W holds a comma, W joined with commas is h, and W has one element more than h
\* has commas (empty and repeated elements kept).
C3_ClusterDescriptor ==
    \A w \in Procs :
        proc[w].env.TF_CONFIG # None =>
            LET d == json_loads(proc[w].env.TF_CONFIG[1])
                h == proc[w].argv.worker_hosts[1]
            IN  /\ d.ok
                /\ \A k \in 1..Len(d.worker) : "," \notin Range(d.worker[k])
                /\ Join(d.worker) = h
                /\ Len(d.worker) = Commas(h) + 1
                /\ d.type = <<"worker">>
                /\ d.index = proc[w].argv.task_index

\* a descriptor with empty, repeated hosts and an index past the end of the list
C3_Witness ==
    \E w \in Procs :
        /\ proc[w].env.TF_CONFIG # None
        /\ proc[w].argv.worker_hosts = Some(<<"a", ",", ",">>)
        /\ proc[w].argv.task_index = Some(10)
        /\ json_loads(proc[w].env.TF_CONFIG[1]).worker = << <<"a">>, <<>>, <<>> >>

\* what a run shows the outside: its environment writes, its session, the calls
\* the session received and the latest metric value
Obs(w) ==
    [ env |-> proc[w].env, experiment |-> proc[w].experiment,
      log |-> proc[w].log, metric |-> proc[w].metric ]

\* C4 as claimed: two completed runs whose command lines differ in --run_id
\* only have shown the outside the same things.
C4_RunIdUnobservable == AllDone => Obs(0) = Obs(1)

\* a call of the session with the value of its "run_id" field left out
Masked(e) ==
    IF e.op = "log_other" /\ e.key = "run_id" THEN [e EXCEPT !.value = None] ELSE e

\* C4, amended: --run_id is no part of TF_CONFIG and decides nothing, but the
\* coordinator logs it (and --worker_hosts) as given: two completed runs whose
\* command lines differ in --run_id only wrote the same environment, opened or
\* did not open a session alike and made the same calls with the same values,
\* but for the value of the "run_id" field, which is each run's own --run_id.
C4_RunIdOnlyInMetadata ==
    /\ AllDone =>
          /\ proc[0].env = proc[1].env
          /\ proc[0].experiment = proc[1].experiment
          /\ proc[0].metric = proc[1].metric
          /\ Len(proc[0].log) = Len(proc[1].log)
          /\ \A k \in 1..Len(proc[0].log) : Masked(proc[0].log[k]) = Masked(proc[1].log[k])
    /\ \A w \in Procs :
          /\ proc[w].env.TF_CONFIG # None =>
                json_loads(proc[w].env.TF_CONFIG[1]).index = proc[w].argv.task_index
          /\ Len(proc[w].log) >= 1 => proc[w].log[1].value = proc[w].argv.run_id
          /\ Len(proc[w].log) >= 2 => proc[w].log[2].value = proc[w].argv.worker_hosts
          /\ Opened(w) => Coord(w)

\* two coordinator runs with two different numeric run ids
C4_Witness ==
    /\ AllDone /\ Coord(0) /\ Coord(1)
    /\ proc[0].argv.run_id # None /\ proc[1].argv.run_id # None
    /\ proc[0].log[1].value # proc[1].log[1].value

\* the steps of the flow in the order stated, for a coordinator or another process
Flow(coord) ==
    <<"GRPC_FAIL_FAST", "get_args", "TF_CONFIG">>
        \o (IF coord THEN <<"Experiment", "log_other", "log_other">> ELSE <<>>)
        \o <<"strategy", "scope", "dataset", "loop">>

Occurrences(q, x) == Cardinality({k \in 1..Len(q) : q[k] = x})

\* the text main() is to leave in TF_CONFIG for a command line
FinalConfig(argv) ==
    json_dumps([ cluster |-> [worker |-> split(argv.worker_hosts[1])],
                 task |-> [type |-> <<"worker">>, index |-> argv.task_index] ])

\* C5: the steps a process has executed are always the first steps of the stated
\* order (GRPC_FAIL_FAST at module load, the arguments, TF_CONFIG, on the
\* coordinator the session and its two fields, the strategy, the scope, the
\* dataset, the loop), none skipped or repeated; a process in the loop has
\* executed them all; once the strategy is constructed GRPC_FAIL_FAST is
\* "use_caller" and TF_CONFIG is the descriptor, then and ever after, and the
\* coordinator's session is open and holds its two fields.
C5_FlowOrder ==
    \A w \in Procs :
        /\ IsPrefix(proc[w].trace, Flow(Coord(w)))
        /\ Occurrences(proc[w].trace, "TF_CONFIG") <= 1
        /\ proc[w].i >= 0 \/ proc[w].pc = "done" => proc[w].trace = Flow(Coord(w))
        /\ proc[w].env.GRPC_FAIL_FAST = None <=> proc[w].trace = <<>>
        /\ proc[w].env.TF_CONFIG = None <=> "TF_CONFIG" \notin Range(proc[w].trace)
        /\ "strategy" \in Range(proc[w].trace) =>
              /\ proc[w].env = [ GRPC_FAIL_FAST |-> Some("use_caller"),
                                 TF_CONFIG |-> Some(FinalConfig(proc[w].argv)) ]
              /\ Coord(w) => Opened(w) /\ Len(proc[w].log) >= 2
        /\ ~Coord(w) => ~Opened(w)

\* a coordinator in its last epoch, every step of the flow behind it
C5_Witness ==
    \E w \in Procs :
        /\ Coord(w) /\ proc[w].pc = "in_step" /\ proc[w].i = EPOCHS - 1
        /\ Len(proc[w].trace) = Len(Flow(TRUE))

Epochs(m) == [k \in 1..m |-> k - 1]

C6_Counts ==
    \A w \in Procs :
        /\ proc[w].i \in -1..(EPOCHS - 1)
        /\ proc[w].stdout =
              Epochs(IF proc[w].i >= 0 /\ Pos(w) \in {"reset", "epoch", "done"}
                     THEN proc[w].i + 1 ELSE IF proc[w].i >= 0 THEN proc[w].i ELSE 0)
        /\ proc[w].pc = "done" => proc[w].i = EPOCHS - 1 /\ proc[w].stdout = Epochs(EPOCHS)

C6_Finished == \A w \in Procs : proc[w].pc = "done" /\ Len(proc[w].stdout) = EPOCHS

\* C6: when no step fails and every pass over the dataset ends, every process,
\* whatever its command line, the number of replicas and the values its steps
\* return, prints one 'Finished epoch' line per epoch, epochs 0, 1, ... in order,
\* and ends main() having printed exactly EPOCHS of them: it leaves the loop
\* after epoch EPOCHS - 1 and not before.
C6_FixedEpochs == []C6_Counts /\ <>C6_Finished

\* a process that is no coordinator, with the most replicas, done
C6_Witness ==
    \E w \in Procs :
        /\ proc[w].pc = "done" /\ ~Coord(w) /\ proc[w].replicas = MaxReplicas
        /\ proc[w].stdout = Epochs(EPOCHS) /\ proc[w].entered = EPOCHS * MaxBatches

BeforeConfig == {"load", "get_args", "split", "tf_config"}

C7_FailedState ==
    \A w \in Procs :
        /\ proc[w].pc = "failed" /\ proc[w].failed_at \in BeforeConfig =>
              proc[w].env.TF_CONFIG = None /\ ~Opened(w) /\ proc[w].log = <<>>
        /\ proc[w].pc = "failed" /\ proc[w].failed_at \notin BeforeConfig =>
              proc[w].env.TF_CONFIG = Some(FinalConfig(proc[w].argv))
        /\ proc[w].argv.worker_hosts = None =>
              Pos(w) \in {"load", "get_args", "split"} /\ proc[w].env.TF_CONFIG = None

\* a failed process stays as the failure left it
C7_NoLaterStep == \A w \in AllProcs : AtPc(w, "failed") => proc'[w] = proc[w]

\* a failure changes nothing but the position of the process
C7_NoRollback ==
    \A w \in AllProcs :
        w \in Procs /\ proc[w].pc # "failed" /\ proc'[w].pc = "failed" =>
            proc'[w] = [proc[w] EXCEPT !.pc = "failed", !.failed_at = proc[w].pc]

\* C7: a step that fails ends the process there: a failed process takes no
\* further step (none later in the flow, no retry), the failure leaves all the
\* process did as it was (a failure after the TF_CONFIG write leaves TF_CONFIG
\* set, one before it leaves TF_CONFIG unwritten and no session opened), and a
\* process started without --worker_hosts never gets past the split.
C7_FailFast == []C7_FailedState /\ [][C7_NoLaterStep /\ C7_NoRollback]_vars

\* a coordinator that failed inside a training step of its second epoch
C7_Witness ==
    \E w \in Procs :
        /\ proc[w].pc = "failed" /\ proc[w].failed_at = "in_step" /\ proc[w].i = 1
        /\ Opened(w) /\ Len(proc[w].log) = 3 /\ proc[w].env.TF_CONFIG # None

InStep(w) == w \in Procs /\ proc[w].pc = "in_step"

\* process v has returned from step k of epoch e (k = 0: it has begun epoch e)
FinishedStep(v, e, k) ==
    proc[v].i > e \/ (proc[v].i = e /\ proc[v].num_batches >= k)

\* process v has entered step k of epoch e
EnteredStep(v, e, k) ==
    proc[v].i > e
        \/ (proc[v].i = e /\ proc[v].num_batches + (IF proc[v].pc = "in_step" THEN 1 ELSE 0) >= k)

\* the step of the loop before the one process w is in, when there is one: step
\* num_batches of its epoch, or the last step of the epoch before
HasPrev(w) == InStep(w) /\ (proc[w].i > 0 \/ proc[w].num_batches > 0)
PrevEpoch(w) == IF proc[w].num_batches > 0 THEN proc[w].i ELSE proc[w].i - 1
PrevStep(w) == IF proc[w].num_batches > 0 THEN proc[w].num_batches ELSE proc[w].batches

C8_EnteredSync ==
    \A w \in Procs, v \in Procs :
        /\ HasPrev(w) => EnteredStep(v, PrevEpoch(w), PrevStep(w))
        /\ proc[w].i >= 1 => EnteredStep(v, proc[w].i - 1, proc[v].batches)
        /\ proc[w].entered <= proc[v].entered + 1

\* every process iterates the same ceil(N / GLOBAL_BATCH_SIZE) >= 1 batches
C8_SameBatches ==
    \A w \in Procs, v \in Procs :
        proc[w].pc \notin {"load", "get_args", "split", "tf_config", "experiment",
                           "log_run_id", "log_worker_hosts", "strategy", "scope", "dataset"} =>
            /\ proc[w].GLOBAL_BATCH_SIZE = BATCH_SIZE_PER_REPLICA * proc[w].replicas
            /\ proc[w].batches * proc[w].GLOBAL_BATCH_SIZE >= dataset_len
            /\ (proc[w].batches - 1) * proc[w].GLOBAL_BATCH_SIZE < dataset_len
            /\ proc[v].batches \in {0, proc[w].batches}

C9_EpochStats ==
    \A w \in Procs :
        proc[w].i >= 0 =>
            /\ proc[w].total_loss = proc[w].epoch_loss
            /\ proc[w].num_batches = proc[w].epoch_steps
            /\ proc[w].epoch_steps =
                  proc[w].batches - proc[w].left - (IF Pos(w) = "in_step" THEN 1 ELSE 0)
            /\ Pos(w) = "batch" /\ proc[w].left = proc[w].batches =>
                  proc[w].total_loss = 0 /\ proc[w].num_batches = 0
            /\ Pos(w) \in {"batch", "in_step", "log_metric", "print", "reset"} =>
                  proc[w].train_accuracy.total = proc[w].epoch_hits
                      /\ proc[w].train_accuracy.count =
                            IF Pos(w) = "reset" THEN proc[w].epoch_steps ELSE proc[w].num_batches
            /\ Pos(w) \in {"epoch", "done"} =>
                  proc[w].train_accuracy = [total |-> 0, count |-> 0]
            /\ Coord(w) /\ Pos(w) \in AfterMetric =>
                  proc[w].metric = Some(<<proc[w].epoch_loss, proc[w].epoch_steps>>)
            /\ Pos(w) \in {"reset", "epoch", "done"} =>
                  proc[w].printed = Some(<<proc[w].epoch_hits, proc[w].epoch_steps>>)

\* the second epoch of a coordinator, printed: a loss of 1 then 2, one hit
C9_Witness ==
    \E w \in Procs :
        /\ proc[w].i = 1 /\ proc[w].pc = "reset"
        /\ proc[w].metric = Some(<<3, 2>>) /\ proc[w].printed = Some(<<1, 2>>)

\* C10: whenever the coordinator is to compute total_loss / num_batches,
\* num_batches is the ceil(BUFFER_SIZE / (64 * r)) >= 1 batches of the epoch, for
\* every number r of replicas and every dataset size; a process that is no
\* coordinator never computes it.
C10_MeanDefined ==
    \A w \in Procs :
        /\ Pos(w) = "log_metric" =>
              /\ Coord(w)
              /\ proc[w].num_batches >= 1
              /\ proc[w].num_batches * BATCH_SIZE_PER_REPLICA * proc[w].replicas
                    >= proc[w].BUFFER_SIZE
              /\ (proc[w].num_batches - 1) * BATCH_SIZE_PER_REPLICA * proc[w].replicas
                    < proc[w].BUFFER_SIZE
              /\ proc[w].BUFFER_SIZE = dataset_len /\ dataset_len >= 1
        /\ proc[w].metric # None => Coord(w) /\ proc[w].metric[1][2] >= 1
        /\ Coord(w) /\ proc[w].i >= 1 => proc[w].metric # None

\* one example, less than a global batch of the most replicas, its mean logged
C10_Witness ==
    \E w \in Procs :
        /\ proc[w].replicas = MaxReplicas /\ dataset_len = 1
        /\ proc[w].pc = "print" /\ proc[w].metric # None /\ proc[w].metric[1][2] = 1

=============================================================================
